---- MODULE Spec2Model ----
(***************************************************************************)
(* A.G.N.I. news verification service (src/main.py).                       *)
(*                                                                         *)
(* One process: module start-up reads three credentials and configures the *)
(* generative client; afterwards POST /api/verify_news runs the pipeline   *)
(* extract_key_claims -> search_google fan-out (asyncio.gather) ->         *)
(* analysis -> response, and GET /health reports the capability flags.     *)
(*                                                                         *)
(* Conventions.  Floats are records [k, n]: k = "fin" with n the value in  *)
(* hundredths, or k in {"nan", "inf", "ninf"}.  A Python/JSON value is a   *)
(* record [kind, s, n]; strings carry their content s and length n.        *)
(***************************************************************************)
EXTENDS Integers, Sequences, FiniteSets

(***************************************************************************)
(* Bounds of the model (not program constants).                            *)
(***************************************************************************)
MaxPad == 1
MaxItems == 7

(***************************************************************************)
(* Program constants.                                                      *)
(***************************************************************************)
MinTextLen == 10
MaxTextLen == 5000
ClaimPrefixLen == 200
MaxClaimsSearched == 3
SearchLimit == 3
MaxEvidence == 5
FallbackEvidence == 3

(***************************************************************************)
(* Python values.                                                          *)
(***************************************************************************)
NONE == "<None>"

JVal(k, s, n) == [kind |-> k, s |-> s, n |-> n]
Str(s, n) == JVal("string", s, n)
\* dict.get on a missing key yields None
Absent == JVal("absent", "", 0)
Null == JVal("null", "", 0)
Bool(b) == JVal("bool", "", IF b THEN 1 ELSE 0)
IntV(n) == JVal("int", "", n)
\* an integer literal beyond the float range
BigInt == JVal("bigint", "", 1)
\* n in hundredths
FloatV(n) == JVal("float", "", n)
\* json.loads accepts NaN, Infinity, -Infinity
NaNV == JVal("nan", "", 0)
InfV == JVal("inf", "", 0)
NegInfV == JVal("ninf", "", 0)
\* a list / dict of n elements
ArrayV(n) == JVal("array", "", n)
ObjectV(n) == JVal("object", "", n)

\* bool(v) / "not v" of Python
Truthy(v) ==
    CASE v.kind \in {"absent", "null"} -> FALSE
      [] v.kind = "string" -> v.n > 0
      [] v.kind \in {"bool", "int", "float", "array", "object"} -> v.n # 0
      [] OTHER -> TRUE

\* bool(k) of a credential: None and "" are falsy
KeyTruthy(k) == k \notin {NONE, ""}

Fin(n) == [k |-> "fin", n |-> n]

\* a < b on Python floats: every comparison with NaN is False
PyLt(a, b) ==
    IF a.k = "nan" \/ b.k = "nan" THEN FALSE
    ELSE IF a.k = "ninf" THEN b.k # "ninf"
    ELSE IF a.k = "inf" THEN FALSE
    ELSE IF b.k = "inf" THEN TRUE
    ELSE IF b.k = "ninf" THEN FALSE
    ELSE a.n < b.n

\* min(a, b) / max(a, b) of Python: the first argument unless the second beats it
PyMin(a, b) == IF PyLt(b, a) THEN b ELSE a
PyMax(a, b) == IF PyLt(a, b) THEN b ELSE a

Min(a, b) == IF a < b THEN a ELSE b

\* seq[:n]
Take(seq, n) == SubSeq(seq, 1, Min(Len(seq), n))

(***************************************************************************)
(* Request texts: lead/trail whitespace characters around a body that      *)
(* neither starts nor ends with whitespace.                                *)
(***************************************************************************)
SENTINEL == Str("no verifiable claims", 20)

Bodies ==
    { Str("", 0), Str("a", MinTextLen - 1), Str("a", MinTextLen), SENTINEL,
      Str("a", MaxTextLen), Str("a", MaxTextLen + 1) }

RequestTexts ==
    [lead : 0 .. MaxPad, body : Bodies, trail : 0 .. MaxPad]

RawLen(v) == v.lead + v.body.n + v.trail
Strip(v) == v.body

\* NewsVerificationRequest.validate_text: the stripped text, or a rejection
validate_text(v) ==
    IF RawLen(v) = 0 \/ Strip(v).n = 0
        THEN [ok |-> FALSE, error |-> "Text field cannot be empty", text |-> Str("", 0)]
    ELSE IF Strip(v).n < MinTextLen
        THEN [ok |-> FALSE, error |-> "Text must be at least 10 characters long",
              text |-> Str("", 0)]
    ELSE IF RawLen(v) > MaxTextLen
        THEN [ok |-> FALSE, error |-> "Text cannot exceed 5000 characters",
              text |-> Str("", 0)]
    ELSE [ok |-> TRUE, error |-> "", text |-> Strip(v)]

(***************************************************************************)
(* Replies of the generative model.                                        *)
(*   outcome: "raise" (generate_content or .text raises), "text"           *)
(*   fence  : "none", "fence" (reply starts with ```), "prose" (a fence    *)
(*            after leading prose: not stripped, so not JSON)              *)
(*   body   : "empty" (falsy .text), "garbage" (not JSON), "json"          *)
(*   json   : the value json.loads yields for the body                     *)
(***************************************************************************)
\* a "sources" / "search_results" entry of the reply: given or not, and its elements
NotGiven == [given |-> FALSE, items |-> <<>>]
NoObj == [classification |-> Absent, reason |-> Absent, confidence |-> Absent,
          sources |-> NotGiven, search_results |-> NotGiven]
Json(kind, items, obj) == [kind |-> kind, items |-> items, obj |-> obj]
JList(items) == Json("array", items, NoObj)
JObj(obj) == Json("object", <<>>, obj)
JScalar == Json("scalar", <<>>, NoObj)

Reply(outcome, fence, body, json) ==
    [outcome |-> outcome, fence |-> fence, body |-> body, json |-> json]
RaiseReply == Reply("raise", "none", "empty", JScalar)
EmptyReply == Reply("text", "none", "empty", JScalar)
GarbageReply == Reply("text", "none", "garbage", JScalar)
JsonReply(j) == Reply("text", "none", "json", j)
FencedReply(j) == Reply("text", "fence", "json", j)
ProseReply(j) == Reply("text", "prose", "json", j)

\* strip(), the ``` regex and json.loads: the parsed value, or a JSONDecodeError
ParseReply(r) ==
    IF r.body = "json" /\ r.fence \in {"none", "fence"}
        THEN [ok |-> TRUE, json |-> r.json]
        ELSE [ok |-> FALSE, json |-> JScalar]

(***************************************************************************)
(* extract_key_claims                                                      *)
(***************************************************************************)
TextPrefix(text) == Str(text.s, Min(text.n, ClaimPrefixLen))

extract_key_claims(key, text, r) ==
    IF ~KeyTruthy(key) THEN <<text>>
    ELSE IF r.outcome = "raise" \/ r.body = "empty" THEN <<TextPrefix(text)>>
    ELSE IF ~ParseReply(r).ok THEN <<TextPrefix(text)>>
    ELSE IF ParseReply(r).json.kind = "array" /\ Len(ParseReply(r).json.items) > 0
        THEN ParseReply(r).json.items
    ELSE <<TextPrefix(text)>>

Paris == Str("Paris is the capital of France", 30)
ClaimA == Str("A", 1)
ClaimX == Str("X", 1)

ExtractReplies ==
    { RaiseReply, EmptyReply, GarbageReply,
      ProseReply(JList(<<ClaimA>>)),
      JsonReply(JScalar), JsonReply(JObj(NoObj)), JsonReply(JList(<<>>)),
      JsonReply(JList(<<Paris, SENTINEL, ClaimX>>)),
      FencedReply(JList(<<SENTINEL>>)),
      JsonReply(JList(<<ClaimA, ClaimA, SENTINEL, ClaimX>>)),
      JsonReply(JList(<<IntV(5), Str("B", 1), Str("C", 1), Str("D", 1)>>)) }

(***************************************************************************)
(* search_google                                                           *)
(*                                                                         *)
(* An upstream outcome is [kind, n]: "raise" (network error), "status" (a  *)
(* non-200 status), "badjson" (a 200 body that is not a JSON object), or   *)
(* "ok" with n result items.  Item i of the payload for a query carries    *)
(* the link [q, i]; the payload is the service's to choose, so it may hold *)
(* more items than the num parameter asked for.                            *)
(***************************************************************************)
Item(q, i) ==
    [link |-> [q |-> q.s, i |-> i],
     title |-> "title", snippet |-> "snippet",
     displayLink |-> CASE i % 3 = 1 -> "www" [] i % 3 = 2 -> "bare" [] OTHER -> "absent",
     wellformed |-> i # 2]

Payload(q, n) == [i \in 1 .. n |-> Item(q, i)]

\* item.get('displayLink', item.get('link', '')) with a leading "www." removed
SourceOf(item) ==
    [of |-> item.link, form |-> IF item.displayLink = "absent" THEN "url" ELSE "host"]

SearchResult(item) ==
    [title |-> item.title, link |-> item.link, snippet |-> item.snippet,
     source |-> SourceOf(item)]

\* the for loop over data['items']: an item that cannot be parsed is skipped
ParseItems(items) ==
    LET good == SelectSeq(items, LAMBDA it : it.wellformed)
    IN [i \in 1 .. Len(good) |-> SearchResult(good[i])]

SearchConfigured(key, cx) == KeyTruthy(key) /\ KeyTruthy(cx)

search_google(key, cx, query, num_results, up) ==
    IF ~SearchConfigured(key, cx) THEN <<>>
    ELSE IF up.kind \in {"raise", "status", "badjson"} THEN <<>>
    \* query[:50] in the log line raises TypeError for a non-string query
    ELSE IF query.kind # "string" THEN <<>>
    ELSE ParseItems(Payload(query, up.n))

PayloadSizes == {0, SearchLimit, MaxItems}

SearchOutcomes ==
    { [kind |-> "raise", n |-> 0], [kind |-> "status", n |-> 0],
      [kind |-> "badjson", n |-> 0] }
    \cup { [kind |-> "ok", n |-> n] : n \in PayloadSizes }

(***************************************************************************)
(* verify_with_ai_and_search: the fan-out                                  *)
(***************************************************************************)
Task(claim) == [query |-> claim, num_results |-> SearchLimit]

\* the loop without its test against the sentinel
SearchTasks_NoSentinelFilter(claims) ==
    [i \in 1 .. Len(Take(claims, MaxClaimsSearched)) |->
        Task(Take(claims, MaxClaimsSearched)[i])]

\* for claim in claims[:3]: if claim != "no verifiable claims": append
SearchTasks(claims) ==
    LET first == Take(claims, MaxClaimsSearched)
        kept == SelectSeq(first, LAMBDA c : c # SENTINEL)
    IN [i \in 1 .. Len(kept) |-> Task(kept[i])]

\* a slot of search_results_lists: st is "pending", "list" or "exc" (an exception
\* object), recs the list returned, up the upstream outcome the coroutine met
NoOutcome == [kind |-> "none", n |-> 0]
Pending == [st |-> "pending", recs |-> <<>>, up |-> NoOutcome]
ListSlot(recs, up) == [st |-> "list", recs |-> recs, up |-> up]
ExcSlot == [st |-> "exc", recs |-> <<>>, up |-> NoOutcome]

\* extend that drops a record whose link is already in the evidence
Extend_Dedup(acc, recs) ==
    acc \o SelectSeq(recs, LAMBDA r : \A i \in 1 .. Len(acc) : acc[i].link # r.link)

\* all_search_results.extend(results)
Extend(acc, recs) == acc \o recs

\* for results in search_results_lists: if isinstance(results, list): extend
RECURSIVE CollectFrom(_, _, _)
CollectFrom(slots, i, acc) ==
    IF i > Len(slots) THEN acc
    ELSE CollectFrom(slots, i + 1,
                     IF slots[i].st = "list" THEN Extend(acc, slots[i].recs) ELSE acc)

CollectResults(slots) == CollectFrom(slots, 1, <<>>)

\* asyncio.gather returns once every awaitable has finished
GatherDone(slots) == \A i \in 1 .. Len(slots) : slots[i].st # "pending"

(***************************************************************************)
(* verify_with_ai_and_search: the analysis                                 *)
(***************************************************************************)
Verified == Str("Verified", 8)
Misinformation == Str("Misinformation", 14)
Unverifiable == Str("Unverifiable", 12)
valid_classifications == {Verified, Misinformation, Unverifiable}

ReasonUnavailable == Str("AI analysis unavailable - API key not configured", 48)
ReasonDefault == Str("Analysis completed with available information.", 46)
ReasonFallback == Str("Unable to complete analysis due to technical limitations.", 57)
ReasonServiceError == Str("Service temporarily unavailable due to technical error.", 55)

Links(recs) == [i \in 1 .. Len(recs) |-> recs[i].link]

Verdict(classification, reason, confidence, recs) ==
    [classification |-> classification, reason |-> reason, confidence |-> confidence,
     sources |-> Links(recs), search_results |-> recs]

\* the unavailable branch attaching the fallback's 3 records instead of 5
UnavailableVerdict_First3(evidence) ==
    [classification |-> Str("Unverifiable", 12),
     reason |-> Str("AI analysis unavailable - API key not configured", 48),
     confidence |-> Fin(30),
     sources |-> [i \in 1 .. Len(Take(evidence, FallbackEvidence)) |->
                      Take(evidence, FallbackEvidence)[i].link],
     search_results |-> Take(evidence, FallbackEvidence)]

\* the return under "if not GEMINI_API_KEY"
UnavailableVerdict(evidence) ==
    Verdict(Unverifiable, ReasonUnavailable, Fin(30), Take(evidence, MaxEvidence))

\* the "Fallback response" return
FallbackVerdict(evidence) ==
    Verdict(Unverifiable, ReasonFallback, Fin(30), Take(evidence, FallbackEvidence))

\* isinstance(x, (int, float)): bool is a subclass of int
IsIntOrFloat(v) == v.kind \in {"bool", "int", "bigint", "float", "nan", "inf", "ninf"}

\* float(x); for "bigint" the call raises OverflowError
ToFloat(v) ==
    CASE v.kind \in {"bool", "int"} -> Fin(v.n * 100)
      [] v.kind = "float" -> Fin(v.n)
      [] OTHER -> [k |-> v.kind, n |-> 0]

\* Clamp with the upper bound forgotten: max(0.0, x)
Clamp_NoUpperBound(x) == PyMax(Fin(0), x)

\* max(0.0, min(1.0, x))
Clamp(x) == PyMax(Fin(0), PyMin(Fin(100), x))

RepairClassification(v) == IF v \notin valid_classifications THEN Unverifiable ELSE v

RepairConfidence(v) == IF ~IsIntOrFloat(v) THEN Fin(50) ELSE Clamp(ToFloat(v))

RepairReason(v) == IF ~Truthy(v) THEN ReasonDefault ELSE v

\* sources kept from the reply when it has them (setdefault instead of assignment)
AttachSources_KeepReply(o, evidence) ==
    IF o.sources.given THEN o.sources.items ELSE Links(Take(evidence, MaxEvidence))

\* result['sources'] = [r.link for r in all_search_results[:5]]
AttachSources(o, evidence) == Links(Take(evidence, MaxEvidence))

\* result['search_results'] = [r.dict() for r in all_search_results[:5]]
AttachSearchResults(o, evidence) == Take(evidence, MaxEvidence)

\* Step 3 of verify_with_ai_and_search, given the model's reply r
Analyse(key, evidence, r) ==
    IF ~KeyTruthy(key) THEN UnavailableVerdict(evidence)
    ELSE IF r.outcome = "raise" \/ r.body = "empty" THEN FallbackVerdict(evidence)
    ELSE IF ~ParseReply(r).ok THEN FallbackVerdict(evidence)
    \* result.get on a list, string or number raises AttributeError
    ELSE IF ParseReply(r).json.kind # "object" THEN FallbackVerdict(evidence)
    \* float() of an integer beyond the float range raises OverflowError
    ELSE IF ParseReply(r).json.obj.confidence.kind = "bigint" THEN FallbackVerdict(evidence)
    ELSE LET o == ParseReply(r).json.obj
         IN [classification |-> RepairClassification(o.classification),
             reason |-> RepairReason(o.reason),
             confidence |-> RepairConfidence(o.confidence),
             sources |-> AttachSources(o, evidence),
             search_results |-> AttachSearchResults(o, evidence)]

NoVerdict == Verdict(Absent, Absent, Fin(0), <<>>)

\* replies to the analysis prompt: a well-formed verdict, and the same verdict with
\* one field varied over the JSON values a model can put there
BaseObj == [classification |-> Verified, reason |-> Str("Confirmed by two sources", 24),
            confidence |-> FloatV(85), sources |-> NotGiven, search_results |-> NotGiven]

\* a link and a record of the model's own making, found in no search result
InventedLink == [q |-> "invented by the model", i |-> 1]
InventedRecord ==
    [title |-> "title", link |-> InventedLink, snippet |-> "snippet",
     source |-> [of |-> InventedLink, form |-> "host"]]
GivenSources == [given |-> TRUE, items |-> <<InventedLink>>]
GivenResults == [given |-> TRUE, items |-> <<InventedRecord>>]

ConfidenceValues ==
    { Absent, Null, Bool(TRUE), Bool(FALSE), Str("0.9", 3), ArrayV(1), ObjectV(0),
      IntV(0), IntV(1), IntV(2), IntV(-1), FloatV(85), FloatV(150), FloatV(-50),
      NaNV, InfV, NegInfV, BigInt }

ClassificationValues ==
    { Verified, Misinformation, Unverifiable, Str("verified", 8), Str("Likely true", 11),
      Absent, Null, IntV(1) }

ReasonValues ==
    { Absent, Null, Str("", 0), Str(" ", 1), IntV(0), IntV(42), Bool(TRUE), ArrayV(2) }

AnalysisObjects ==
    { [BaseObj EXCEPT !.confidence = c] : c \in ConfidenceValues }
    \cup { [BaseObj EXCEPT !.classification = c] : c \in ClassificationValues }
    \cup { [BaseObj EXCEPT !.reason = c] : c \in ReasonValues }
    \cup { NoObj,
           [BaseObj EXCEPT !.sources = GivenSources],
           [BaseObj EXCEPT !.sources = GivenSources, !.search_results = GivenResults],
           [BaseObj EXCEPT !.sources = [given |-> TRUE, items |-> <<>>],
                           !.search_results = [given |-> TRUE, items |-> <<>>]] }

AnalysisReplies ==
    { RaiseReply, EmptyReply, GarbageReply, ProseReply(JObj(BaseObj)),
      JsonReply(JScalar), JsonReply(JList(<<ClaimA>>)), FencedReply(JObj(BaseObj)) }
    \cup { JsonReply(JObj(o)) : o \in AnalysisObjects }

(***************************************************************************)
(* verify_news and health_check                                            *)
(***************************************************************************)
NoResponse ==
    [status |-> "none", error |-> "", classification |-> Absent, reason |-> Absent,
     sources |-> <<>>, search_results |-> <<>>, confidence |-> Fin(0),
     timestamp |-> 0, processing_time |-> 0]

\* the validation error the framework answers with; the handler is not entered
Rejection(error) == [NoResponse EXCEPT !.status = "rejected", !.error = error]

\* the "Prepare response" dict of verify_news
VerifyNewsResponse(r, t, start) ==
    [status |-> "ok", error |-> "", classification |-> r.classification,
     reason |-> r.reason, sources |-> r.sources, search_results |-> r.search_results,
     confidence |-> r.confidence, timestamp |-> t, processing_time |-> t - start]

\* the except branch re-raising instead of answering: the client gets an error
DegradedResponse_Reraise(t, start) ==
    [NoResponse EXCEPT !.status = "error", !.timestamp = t, !.processing_time = t - start]

\* the dict returned by the except branch of verify_news
DegradedResponse(t, start) ==
    [status |-> "ok", error |-> "", classification |-> Unverifiable,
     reason |-> ReasonServiceError, sources |-> <<>>, search_results |-> <<>>,
     confidence |-> Fin(0), timestamp |-> t, processing_time |-> t - start]

NoHealth ==
    [reported |-> FALSE, gemini_ai |-> FALSE, google_search |-> FALSE,
     gemini_configured |-> FALSE, search_configured |-> FALSE,
     full_functionality |-> FALSE]

health_check(gemini, key, cx) ==
    [reported |-> TRUE,
     gemini_ai |-> gemini # NONE,
     google_search |-> key # NONE /\ cx # NONE,
     gemini_configured |-> KeyTruthy(gemini),
     search_configured |-> KeyTruthy(key) /\ KeyTruthy(cx),
     full_functionality |-> KeyTruthy(gemini) /\ KeyTruthy(key) /\ KeyTruthy(cx)]

(***************************************************************************)
(* State                                                                   *)
(***************************************************************************)
VARIABLES
    GEMINI_API_KEY, GOOGLE_SEARCH_API_KEY, GOOGLE_SEARCH_ENGINE_ID,
    pc,                  \* position of the process / of the one request
    request,             \* the raw text posted
    text,                \* request.text after validation
    start_time, now,     \* datetime.now() at handler entry / a logical clock
    claims,              \* result of extract_key_claims
    search_tasks,        \* the coroutines handed to asyncio.gather
    slots,               \* search_results_lists, one slot per task
    all_search_results,
    ai_response,         \* the model's reply to the analysis prompt
    result,              \* what verify_with_ai_and_search returned
    response,            \* what the client receives
    failed,              \* the except branch of verify_news ran
    gen_calls,           \* generate_content calls issued
    http_requests,       \* search requests issued
    health               \* the last GET /health report

vars ==
    << GEMINI_API_KEY, GOOGLE_SEARCH_API_KEY, GOOGLE_SEARCH_ENGINE_ID, pc, request,
       text, start_time, now, claims, search_tasks, slots, all_search_results,
       ai_response, result, response, failed, gen_calls, http_requests, health >>

config == << GEMINI_API_KEY, GOOGLE_SEARCH_API_KEY, GOOGLE_SEARCH_ENGINE_ID >>

\* os.getenv: unset, set to the empty string, or set to a value
EnvValues == {NONE, "", "key"}

NoRequest == [lead |-> 0, body |-> Str("", 0), trail |-> 0]

Init ==
    /\ GEMINI_API_KEY \in EnvValues
    /\ GOOGLE_SEARCH_API_KEY \in EnvValues
    /\ GOOGLE_SEARCH_ENGINE_ID \in EnvValues
    /\ pc = "configure"
    /\ request = NoRequest
    /\ text = Str("", 0)
    /\ start_time = 0
    /\ now = 0
    /\ claims = <<>>
    /\ search_tasks = <<>>
    /\ slots = <<>>
    /\ all_search_results = <<>>
    /\ ai_response = EmptyReply
    /\ result = NoVerdict
    /\ response = NoResponse
    /\ failed = FALSE
    /\ gen_calls = 0
    /\ http_requests = 0
    /\ health = NoHealth

GeminiAvailable == KeyTruthy(GEMINI_API_KEY)
SearchAvailable == SearchConfigured(GOOGLE_SEARCH_API_KEY, GOOGLE_SEARCH_ENGINE_ID)

\* "Configure Gemini AI" at import: genai.configure succeeds or raises
ConfigureGemini ==
    /\ pc = "configure"
    /\ pc' = "idle"
    /\ IF KeyTruthy(GEMINI_API_KEY)
         THEN \E ok \in BOOLEAN :
                GEMINI_API_KEY' = IF ok THEN GEMINI_API_KEY ELSE NONE
         ELSE UNCHANGED GEMINI_API_KEY
    /\ UNCHANGED << GOOGLE_SEARCH_API_KEY, GOOGLE_SEARCH_ENGINE_ID, request, text,
                    start_time, now, claims, search_tasks, slots, all_search_results,
                    ai_response, result, response, failed, gen_calls, http_requests,
                    health >>

\* POST /api/verify_news: validation, then the handler up to its first await
PostVerifyNews ==
    /\ pc = "idle"
    /\ \E v \in RequestTexts :
         /\ request' = v
         /\ IF validate_text(v).ok
              THEN /\ text' = validate_text(v).text
                   /\ pc' = "extract"
                   /\ response' = response
              ELSE /\ text' = text
                   /\ pc' = "rejected"
                   /\ response' = Rejection(validate_text(v).error)
    /\ start_time' = now
    /\ now' = now + 1
    /\ UNCHANGED << config, claims, search_tasks, slots, all_search_results,
                    ai_response, result, failed, gen_calls, http_requests, health >>

\* claims = await extract_key_claims(text)
ExtractKeyClaims ==
    /\ pc = "extract"
    /\ IF GeminiAvailable
         THEN /\ \E r \in ExtractReplies :
                   claims' = extract_key_claims(GEMINI_API_KEY, text, r)
              /\ gen_calls' = gen_calls + 1
         ELSE /\ claims' = extract_key_claims(GEMINI_API_KEY, text, EmptyReply)
              /\ gen_calls' = gen_calls
    /\ pc' = "tasks"
    /\ now' = now + 1
    /\ UNCHANGED << config, request, text, start_time, search_tasks, slots,
                    all_search_results, ai_response, result, response, failed,
                    http_requests, health >>

\* the loop building search_tasks, and the start of asyncio.gather
CreateSearchTasks ==
    /\ pc = "tasks"
    /\ search_tasks' = SearchTasks(claims)
    /\ slots' = [i \in 1 .. Len(SearchTasks(claims)) |-> Pending]
    /\ pc' = IF Len(SearchTasks(claims)) > 0 THEN "gather" ELSE "analyse"
    /\ now' = now + 1
    /\ UNCHANGED << config, request, text, start_time, claims, all_search_results,
                    ai_response, result, response, failed, gen_calls, http_requests,
                    health >>

\* one search_google coroutine runs to its return
SearchGoogle(i) ==
    /\ pc = "gather"
    /\ slots[i] = Pending
    /\ IF SearchAvailable
         THEN /\ \E up \in SearchOutcomes :
                   slots' = [slots EXCEPT ![i] =
                       ListSlot(search_google(GOOGLE_SEARCH_API_KEY, GOOGLE_SEARCH_ENGINE_ID,
                                              search_tasks[i].query,
                                              search_tasks[i].num_results, up), up)]
              /\ http_requests' = http_requests + 1
         ELSE /\ slots' = [slots EXCEPT ![i] =
                       ListSlot(search_google(GOOGLE_SEARCH_API_KEY, GOOGLE_SEARCH_ENGINE_ID,
                                              search_tasks[i].query,
                                              search_tasks[i].num_results, NoOutcome),
                                NoOutcome)]
              /\ http_requests' = http_requests
    /\ UNCHANGED << config, pc, request, text, start_time, now, claims, search_tasks,
                    all_search_results, ai_response, result, response, failed,
                    gen_calls, health >>

\* a coroutine ends with an exception instead (it is cancelled, or an error escapes
\* its handlers): gather(return_exceptions=True) stores the exception object
SearchRaises(i) ==
    /\ pc = "gather"
    /\ slots[i] = Pending
    /\ slots' = [slots EXCEPT ![i] = ExcSlot]
    /\ UNCHANGED << config, pc, request, text, start_time, now, claims, search_tasks,
                    all_search_results, ai_response, result, response, failed,
                    gen_calls, http_requests, health >>

\* gather returns; the loop over search_results_lists
Gathered ==
    /\ pc = "gather"
    /\ GatherDone(slots)
    /\ all_search_results' = CollectResults(slots)
    /\ pc' = "analyse"
    /\ now' = now + 1
    /\ UNCHANGED << config, request, text, start_time, claims, search_tasks, slots,
                    ai_response, result, response, failed, gen_calls, http_requests,
                    health >>

\* Step 3 of verify_with_ai_and_search and the response of verify_news
AnalyseAndRespond ==
    /\ pc = "analyse"
    /\ IF GeminiAvailable
         THEN /\ \E r \in AnalysisReplies :
                   /\ ai_response' = r
                   /\ result' = Analyse(GEMINI_API_KEY, all_search_results, r)
              /\ gen_calls' = gen_calls + 1
         ELSE /\ ai_response' = ai_response
              /\ result' = Analyse(GEMINI_API_KEY, all_search_results, ai_response)
              /\ gen_calls' = gen_calls
    /\ response' = VerifyNewsResponse(result', now + 1, start_time)
    /\ pc' = "done"
    /\ now' = now + 1
    /\ UNCHANGED << config, request, text, start_time, claims, search_tasks, slots,
                    all_search_results, failed, http_requests, health >>

\* an exception raised inside the try block of verify_news reaches its except branch
VerifyNewsExcept ==
    /\ pc \in {"extract", "tasks", "gather", "analyse"}
    /\ failed' = TRUE
    /\ response' = DegradedResponse(now + 1, start_time)
    /\ pc' = "done"
    /\ now' = now + 1
    /\ UNCHANGED << config, request, text, start_time, claims, search_tasks, slots,
                    all_search_results, ai_response, result, gen_calls, http_requests,
                    health >>

\* GET /health
HealthCheck ==
    /\ pc # "configure"
    /\ health' = health_check(GEMINI_API_KEY, GOOGLE_SEARCH_API_KEY,
                              GOOGLE_SEARCH_ENGINE_ID)
    /\ health' # health
    /\ UNCHANGED << config, pc, request, text, start_time, now, claims, search_tasks,
                    slots, all_search_results, ai_response, result, response, failed,
                    gen_calls, http_requests >>

Next ==
    \/ ConfigureGemini
    \/ PostVerifyNews
    \/ ExtractKeyClaims
    \/ CreateSearchTasks
    \/ \E i \in 1 .. Len(slots) : SearchGoogle(i)
    \/ \E i \in 1 .. Len(slots) : SearchRaises(i)
    \/ Gathered
    \/ AnalyseAndRespond
    \/ VerifyNewsExcept
    \/ HealthCheck

Spec == Init /\ [][Next]_vars

(***************************************************************************)
(* Properties                                                              *)
(***************************************************************************)
Completed == pc = "done" /\ ~failed
AnalysisObject ==
    /\ Completed /\ GeminiAvailable
    /\ ParseReply(ai_response).ok
    /\ ParseReply(ai_response).json.kind = "object"
Given == ParseReply(ai_response).json.obj

\* C1: every response of verify_news to an accepted request carries a classification
\* among Verified / Misinformation / Unverifiable and a confidence that is a number
\* in [0.0, 1.0], whatever the generative and search services answered.
C1_ResponseWellFormed ==
    response.status = "ok" =>
        /\ response.classification \in
               {Str("Verified", 8), Str("Misinformation", 14), Str("Unverifiable", 12)}
        /\ response.confidence.k = "fin"
        /\ response.confidence.n >= 0
        /\ response.confidence.n <= 100

\* the model answered with a confidence of 1.5, and the response carries 1.0
C1_Witness ==
    /\ AnalysisObject
    /\ Given.confidence = FloatV(150)
    /\ response.confidence = Fin(100)
    /\ response.classification = Verified

\* C2: when an exception reaches the except branch of verify_news the handler still
\* answers, and the answer is Unverifiable with confidence 0.0, no sources, no
\* search results, a timestamp and a processing time.
C2_DegradedResponse ==
    failed =>
        /\ pc = "done"
        /\ response.status = "ok"
        /\ response.classification = Str("Unverifiable", 12)
        /\ response.confidence = Fin(0)
        /\ response.sources = <<>>
        /\ response.search_results = <<>>
        /\ response.reason.kind = "string" /\ response.reason.n > 0
        /\ response.timestamp = now
        /\ response.processing_time = now - start_time

\* the extraction step raised: no claim was extracted, yet a response exists
C2_Witness ==
    /\ failed
    /\ claims = <<>>
    /\ text.n >= MinTextLen
    /\ response.status = "ok"

\* C3 (as claimed): a request is accepted, and the pipeline run on the trimmed text,
\* exactly when the trimmed text has 10 to 5000 characters; any other request is
\* rejected before any generative or search call.
C3_AcceptedIffTrimmedInRange ==
    pc \notin {"configure", "idle"} =>
        /\ (pc # "rejected") <=> (request.body.n >= 10 /\ request.body.n <= 5000)
        /\ pc # "rejected" => text = request.body
        /\ pc = "rejected" =>
               /\ response.status = "rejected"
               /\ gen_calls = 0 /\ http_requests = 0
               /\ claims = <<>> /\ search_tasks = <<>>

\* C4 (as claimed): when the reply parses to a JSON object, the verdict's confidence
\* is the clamped number for a JSON number and 0.5 for an absent or non-numeric
\* field (null, boolean, string, array, object), and always lies in [0.0, 1.0].
C4_ClampOf(v) ==
    CASE v.kind = "int" -> Fin(IF v.n < 0 THEN 0 ELSE IF v.n > 1 THEN 100 ELSE v.n * 100)
      [] v.kind = "float" -> Fin(IF v.n < 0 THEN 0 ELSE IF v.n > 100 THEN 100 ELSE v.n)
      [] v.kind = "bigint" -> Fin(100)

C4_ConfidenceRepaired ==
    AnalysisObject =>
        /\ Given.confidence.kind \in {"int", "float", "bigint"} =>
               result.confidence = C4_ClampOf(Given.confidence)
        /\ Given.confidence.kind \in {"absent", "null", "bool", "string", "array", "object"} =>
               result.confidence = Fin(50)
        /\ result.confidence.k = "fin"
        /\ result.confidence.n >= 0 /\ result.confidence.n <= 100

\* C5 (as claimed): on every path through the analysis the verdict's reason is a
\* non-empty string, whatever the model put in the reason field.
C5_ReasonNonEmptyString ==
    Completed => result.reason.kind = "string" /\ result.reason.n > 0

\* C6: with the generative capability not configured no generative call is issued,
\* extraction yields exactly [text], and the response is Unverifiable with
\* confidence 0.3, the "AI analysis unavailable" reason, and the first 5 records of
\* the aggregated evidence (sources being their links).
C6_First(n) ==
    [i \in 1 .. (IF Len(all_search_results) < n THEN Len(all_search_results) ELSE n)
        |-> all_search_results[i]]

C6_GenerativeDisabled ==
    (pc # "configure" /\ GEMINI_API_KEY \in {NONE, ""}) =>
        /\ gen_calls = 0
        /\ pc \in {"tasks", "gather", "analyse"} => claims = <<text>>
        /\ Completed =>
               /\ claims = <<text>>
               /\ response.classification = Str("Unverifiable", 12)
               /\ response.confidence = Fin(30)
               /\ response.reason =
                      Str("AI analysis unavailable - API key not configured", 48)
               /\ response.search_results = C6_First(5)
               /\ response.sources = [i \in 1 .. Len(C6_First(5)) |-> C6_First(5)[i].link]

\* one retrieval returned more than 5 records and the response keeps the first 5
C6_Witness ==
    /\ Completed
    /\ GEMINI_API_KEY \in {NONE, ""}
    /\ Len(all_search_results) > 5
    /\ Len(response.search_results) = 5

\* C7: the aggregator starts one retrieval with limit 3 for each of the first 3
\* claims that differs from "no verifiable claims", in claim order, and none for the
\* sentinel or for a claim at position 4 or later; with no claim left it starts no
\* retrieval and the evidence is empty.  For ["Paris is the capital of France",
\* "no verifiable claims", "X"] exactly 2 retrievals are started.
RECURSIVE C7_Queries(_, _)
C7_Queries(cs, i) ==
    IF i > Len(cs) \/ i > 3 THEN <<>>
    ELSE IF cs[i] = Str("no verifiable claims", 20) THEN C7_Queries(cs, i + 1)
    ELSE <<cs[i]>> \o C7_Queries(cs, i + 1)

C7_OneRetrievalPerClaim ==
    (pc \in {"gather", "analyse"} \/ Completed) =>
        /\ Len(search_tasks) = Len(C7_Queries(claims, 1))
        /\ Len(slots) = Len(search_tasks)
        /\ \A i \in 1 .. Len(search_tasks) :
               /\ search_tasks[i].query = C7_Queries(claims, 1)[i]
               /\ search_tasks[i].num_results = 3
        /\ http_requests <= Len(search_tasks)
        /\ Len(search_tasks) = 0 => all_search_results = <<>> /\ http_requests = 0
        /\ claims = << Str("Paris is the capital of France", 30),
                       Str("no verifiable claims", 20), Str("X", 1) >> =>
               /\ Len(search_tasks) = 2
               /\ search_tasks[1].query = Str("Paris is the capital of France", 30)
               /\ search_tasks[2].query = Str("X", 1)

C7_Witness ==
    /\ pc = "analyse"
    /\ claims = <<Paris, SENTINEL, ClaimX>>
    /\ Len(search_tasks) = 2
    /\ http_requests = 2

\* C8: once the fan-out has been joined, the aggregated evidence is the
\* concatenation, in submission order, of the lists the retrievals returned; a
\* retrieval that ended with an exception contributes nothing and its siblings
\* still contribute; every retrieval has finished before the analysis starts; no
\* record is dropped as a duplicate.
RECURSIVE C8_Concat(_)
C8_Concat(ss) ==
    IF Len(ss) = 0 THEN <<>>
    ELSE C8_Concat(SubSeq(ss, 1, Len(ss) - 1))
             \o (IF ss[Len(ss)].st = "list" THEN ss[Len(ss)].recs ELSE <<>>)

C8_FanOutJoined ==
    /\ (pc = "analyse" \/ Completed) =>
           /\ \A i \in 1 .. Len(slots) : slots[i].st \in {"list", "exc"}
           /\ all_search_results = C8_Concat(slots)
    /\ pc = "gather" =>
           /\ all_search_results = <<>>
           /\ result = NoVerdict
           /\ gen_calls <= 1

\* one retrieval ended with an exception, its sibling returned records for the same
\* query, and those records are in the evidence
C8_Witness ==
    /\ pc = "analyse"
    /\ Len(slots) = 2
    /\ slots[1].st = "exc"
    /\ slots[2].st = "list"
    /\ Len(slots[2].recs) > 0
    /\ all_search_results = slots[2].recs

\* C9 (as claimed): a retrieval returns at most `limit` records, and returns the
\* empty list when credentials are missing, the status is not 200, or a network or
\* parsing exception occurs.
C9_RetrievalBounded ==
    \A i \in 1 .. Len(slots) :
        slots[i].st = "list" =>
            /\ Len(slots[i].recs) <= search_tasks[i].num_results
            /\ Len(slots[i].recs) <= 3
            /\ ~SearchAvailable => slots[i].recs = <<>>
            /\ slots[i].up.kind \in {"raise", "status", "badjson"} => slots[i].recs = <<>>

\* C10 (as claimed): every capability flag of GET /health is true exactly when the
\* pipeline treats the capability as available, and full_functionality exactly
\* when both are.
C10_HealthMatchesPipeline ==
    health.reported =>
        /\ health.gemini_ai = GeminiAvailable
        /\ health.gemini_configured = GeminiAvailable
        /\ health.google_search = SearchAvailable
        /\ health.search_configured = SearchAvailable
        /\ health.full_functionality = (GeminiAvailable /\ SearchAvailable)
        /\ Completed => (health.gemini_ai <=> gen_calls > 0)
        /\ \A i \in 1 .. Len(slots) :
               slots[i].st = "list" => (health.google_search <=> slots[i].up.kind # "none")

\* C11: in every response of verify_news, search_results is a prefix of at most 5
\* records of the evidence aggregated for the request, and sources is the list of
\* the links of search_results in the same order, whatever sources or
\* search_results the model's reply contained.
C11_EvidenceFromSearchOnly ==
    response.status = "ok" =>
        /\ Len(response.search_results) <= 5
        /\ Len(response.search_results) <= Len(all_search_results)
        /\ \A i \in 1 .. Len(response.search_results) :
               response.search_results[i] = all_search_results[i]
        /\ Len(response.sources) = Len(response.search_results)
        /\ \A i \in 1 .. Len(response.sources) :
               response.sources[i] = response.search_results[i].link

\* the reply named a source and a record of its own while the search had gathered
\* more than 5 records: the response carries the first 5 gathered ones
C11_Witness ==
    /\ AnalysisObject
    /\ Given.sources.given /\ Len(Given.sources.items) > 0
    /\ Given.search_results.given /\ Len(Given.search_results.items) > 0
    /\ Len(all_search_results) > 5
    /\ Len(response.search_results) = 5
    /\ response.sources[1] = all_search_results[1].link

====
